---- MODULE Spec2Model ----
(***************************************************************************)
(* A model of sysopt's symbolic expression engine                          *)
(* (sysopt/symbolic/symbols.py, sysopt/symbolic/casts.py).                 *)
(*                                                                         *)
(* Python list indices are 0-based; sequences here are 1-based, so node    *)
(* index i of the source is position i + 1 of `nodes`.                     *)
(***************************************************************************)
EXTENDS Integers, Sequences, FiniteSets, TLC

VARIABLES
    graphs,     \* the ExpressionGraph objects built so far (nodes, edges, head)
    expr,       \* history: for each graph, the expression that was requested
    steps,      \* operations performed by the exploration
    tpc,        \* position in the driver ("explore" or a line of a test)
    blocks,     \* Parameter model: address -> the block object living there
    nblocks,    \* blocks created so far
    ptable,     \* Parameter._table: uid -> Parameter object
    preq,       \* the last Parameter(block, parameter) request and its outcome
    phist,      \* history: (block, index) -> the objects requests for it returned
    coexisted,  \* history: pairs of blocks that were alive at the same time
    ports,      \* SignalReference model: address -> the port object living there
    nports,     \* ports created so far
    sigs,       \* the SignalReference objects created so far, dead ones included
    signals,    \* SignalReference._signals: id(port) -> weak reference
    sreq,       \* the last SignalReference(port) request and the object returned
    chain,      \* shape model: the shapes of the factors of a matrix product
    mgraph,     \* the ExpressionGraph of the product
    fres,       \* the last result of matmul_shape(*chain)
    mres,       \* the last result of mgraph.shape
    registry,   \* casts._registry
    creq,       \* the last casts.register call and its outcome
    cres,       \* the last cast_type / cast_like call and its result
    ops,        \* __ops: number of arguments -> the functions registered
    shape_ops,  \* __shape_ops: function -> shape rule
    oreq,       \* the last operator registration and how it ended
    thr,        \* two threads requesting one cache key: position and locals
    tcache,     \* the cache entry of that key (0: absent)
    tobjs,      \* instances constructed for that key
    tlock,      \* the thread holding the lock (0: free)
    tmode       \* which cache is requested, and whether under the lock

gvars == <<graphs, expr, steps, tpc>>
pvars == <<blocks, nblocks, ptable, preq, phist, coexisted>>
svars == <<ports, nports, sigs, signals, sreq>>
hvars == <<chain, mgraph, fres, mres>>
cvars == <<registry, creq, cres>>
ovars == <<ops, shape_ops, oreq>>
tvars == <<thr, tcache, tobjs, tlock, tmode>>
vars == <<gvars, pvars, svars, hvars, cvars, ovars, tvars>>

(***************************************************************************)
(* Bounds of the exploration.                                              *)
(***************************************************************************)
MaxGraphs == 2
MaxSteps == 3
MaxAddrs == 2
MaxBlocks == 3
MaxPorts == 3
MaxSignals == 3
MaxDim == 5
MaxChain == 3
MaxRegistrations == 3

(***************************************************************************)
(* Values held by graph nodes: operators and leaves.                       *)
(***************************************************************************)
scalar_shape == <<1>>

Operator(k) == [kind |-> "op", id |-> k]
power == Operator(1)
add == Operator(2)
sub == Operator(3)
matmul == Operator(4)
neg == Operator(5)
mul == Operator(6)
div == Operator(7)
transpose == Operator(8)
evaluate_signal == Operator(9)

\* __ops after the module is loaded: arity -> the functions registered.
ops_table ==
    [n \in {1, 2} |->
        IF n = 2 THEN <<power, add, sub, matmul, mul, div, evaluate_signal>>
        ELSE <<neg, transpose>>]

is_op(value) ==
    \E n \in DOMAIN ops_table :
        \E i \in 1..Len(ops_table[n]) : ops_table[n][i] = value

\* Leaves.  Variable, Parameter and SignalReference define no __eq__ (their
\* __cmp__ is not used by Python 3), so they are equal only to themselves: a
\* record here stands for one object.
Variable(k, shp) == [kind |-> "var", id |-> k, shape |-> shp]
Parameter(b, i) == [kind |-> "param", block |-> b, index |-> i]
SignalReference(p) == [kind |-> "sig", port |-> p]
Const(n) == [kind |-> "const", val |-> n]

\* _t = Variable('t')
time_variable == Variable(0, scalar_shape)
get_time_variable == time_variable

(***************************************************************************)
(* ExpressionGraph: [nodes, edges, head].                                  *)
(***************************************************************************)
\* list.index: the first position holding an equal value, 0 for ValueError.
ListIndex(nodes, value) ==
    IF \E i \in 1..Len(nodes) : nodes[i] = value
    THEN CHOOSE i \in 1..Len(nodes) :
            /\ nodes[i] = value
            /\ \A j \in 1..(i - 1) : nodes[j] # value
    ELSE 0

AppendNode(g, value) ==
    [g |-> [g EXCEPT !.nodes = Append(g.nodes, value)],
     idx |-> Len(g.nodes) + 1]

\* Mutant: leaves are appended without looking for an equal node.
add_or_get_value_NoDedup(g, value) == AppendNode(g, value)

\* add_or_get_node for a value that is an operator or a leaf.
add_or_get_value(g, value) ==
    IF is_op(value) THEN AppendNode(g, value)
    ELSE IF ListIndex(g.nodes, value) # 0
         THEN [g |-> g, idx |-> ListIndex(g.nodes, value)]
         ELSE AppendNode(g, value)

RECURSIVE MergeNodes(_, _, _)
\* new_indices of merge_and_return_subgraph_head, built node by node.
MergeNodes(g, onodes, map) ==
    IF Len(map) = Len(onodes) THEN [g |-> g, map |-> map]
    ELSE LET r == add_or_get_value(g, onodes[Len(map) + 1])
         IN MergeNodes(r.g, onodes, Append(map, r.idx))

\* Mutant: the children keep the indices they had in `other`.
RemapEdges_ChildrenNotRemapped(edges, oedges, map) ==
    LET keys == {map[q] : q \in DOMAIN oedges}
    IN [k \in (DOMAIN edges) \cup keys |->
            IF k \in keys
            THEN oedges[CHOOSE q \in DOMAIN oedges : map[q] = k]
            ELSE edges[k]]

\* dict.update with the remapped edges of `other`.
RemapEdges(edges, oedges, map) ==
    LET keys == {map[p] : p \in DOMAIN oedges}
    IN [k \in (DOMAIN edges) \cup keys |->
            IF k \in keys
            THEN LET p == CHOOSE q \in DOMAIN oedges : map[q] = k
                 IN [c \in 1..Len(oedges[p]) |-> map[oedges[p][c]]]
            ELSE edges[k]]

\* Mutant: the merge returns the first node of `other`, not its head.
merge_and_return_subgraph_head_FirstNode(g, other) ==
    LET r == MergeNodes(g, other.nodes, <<>>)
    IN [g |-> [r.g EXCEPT !.edges = RemapEdges(r.g.edges, other.edges, r.map)],
        idx |-> r.map[1]]

merge_and_return_subgraph_head(g, other) ==
    LET r == MergeNodes(g, other.nodes, <<>>)
    IN [g |-> [r.g EXCEPT !.edges = RemapEdges(r.g.edges, other.edges, r.map)],
        idx |-> r.map[other.head]]

\* An argument is a leaf, an operator, or a reference to a graph object:
\* [kind |-> "gref", id |-> k] is graph k of `pool`; `self` is the index of the
\* receiving graph in the pool (0 for a graph under construction).
GRef(k) == [kind |-> "gref", id |-> k]

\* Mutant: the graph itself as argument maps to its newest node.
add_or_get_node_SelfIsNewest(g, self, pool, value) ==
    IF value.kind = "gref"
    THEN IF value.id = self
         THEN [g |-> g, idx |-> Len(g.nodes)]
         ELSE merge_and_return_subgraph_head(g, pool[value.id])
    ELSE add_or_get_value(g, value)

add_or_get_node(g, self, pool, value) ==
    IF value.kind = "gref"
    THEN IF value.id = self
         THEN [g |-> g, idx |-> g.head]
         ELSE merge_and_return_subgraph_head(g, pool[value.id])
    ELSE add_or_get_value(g, value)

RECURSIVE AddArgs(_, _, _, _, _)
\* [self.add_or_get_node(a) for a in args], left to right.
AddArgs(g, self, pool, args, idxs) ==
    IF Len(idxs) = Len(args) THEN [g |-> g, idxs |-> idxs]
    ELSE LET r == add_or_get_node(g, self, pool, args[Len(idxs) + 1])
         IN AddArgs(r.g, self, pool, args, Append(idxs, r.idx))

EmptyGraph == [nodes |-> <<>>, edges |-> <<>>, head |-> 0]

SetEdge(edges, k, v) ==
    [x \in (DOMAIN edges) \cup {k} |-> IF x = k THEN v ELSE edges[x]]

\* ExpressionGraph.__init__
ExpressionGraph(op, args, pool) ==
    LET o == add_or_get_value(EmptyGraph, op)
        r == AddArgs(o.g, 0, pool, args, <<>>)
    IN [r.g EXCEPT !.edges = SetEdge(r.g.edges, o.idx, r.idxs),
                   !.head = o.idx]

\* Mutant: the head is reassigned before the arguments are added.
push_op_HeadFirst(g, self, pool, op, args) ==
    LET o == add_or_get_value(g, op)
        r == AddArgs([o.g EXCEPT !.head = o.idx], self, pool, args, <<>>)
    IN [r.g EXCEPT !.edges = SetEdge(r.g.edges, o.idx, r.idxs),
                   !.head = o.idx]

\* ExpressionGraph.push_op
push_op(g, self, pool, op, args) ==
    LET o == add_or_get_value(g, op)
        r == AddArgs(o.g, self, pool, args, <<>>)
    IN [r.g EXCEPT !.edges = SetEdge(r.g.edges, o.idx, r.idxs),
                   !.head = o.idx]

(***************************************************************************)
(* The expression a construction asks for, as a term.                      *)
(***************************************************************************)
Term(op, args) == [kind |-> "term", op |-> op, args |-> args]

ArgExpr(a, self, selfexpr, exprs) ==
    IF a.kind = "gref"
    THEN IF a.id = self THEN selfexpr ELSE exprs[a.id]
    ELSE a

TermOf(op, args, self, selfexpr, exprs) ==
    Term(op, [i \in 1..Len(args) |-> ArgExpr(args[i], self, selfexpr, exprs)])

(***************************************************************************)
(* Values of evaluation (ExpressionGraph.call).  A binding maps a leaf to  *)
(* a number, Const(n), or to a callable of time, Fn(k): tau |-> tau + k,   *)
(* written with the operators of Python so that it also accepts a symbolic *)
(* time.  A result that is itself an ExpressionGraph is written as the     *)
(* term it stands for; a raised exception is Error.                        *)
(***************************************************************************)
Fn(k) == [kind |-> "fn", id |-> k]
Error == [kind |-> "error"]

IsAlgebraic(v) == v.kind \in {"var", "param", "sig", "term"}

\* add, sub, mul on Python ints.
Arith(op, a, b) ==
    IF op = add THEN a + b ELSE IF op = sub THEN a - b ELSE a * b

\* op(*args): the registered functions of lines 134-171 and 495-497.  On
\* Algebraic operands the infix operators build a graph; the other operators
\* (power, div, matmul, transpose) are left uninterpreted.
RECURSIVE Apply(_, _)
Apply(op, args) ==
    IF \E i \in 1..Len(args) : args[i].kind = "error" THEN Error
    ELSE IF op = evaluate_signal
    THEN IF args[1].kind = "fn" THEN Apply(add, <<args[2], Const(args[1].id)>>)
         ELSE IF args[1].kind = "sig" THEN Term(op, args)
         ELSE Error
    ELSE IF op = neg
    THEN IF args[1].kind = "const" THEN Const(0 - args[1].val)
         ELSE IF IsAlgebraic(args[1]) THEN Term(op, args)
         ELSE Error
    ELSE IF op \in {add, sub, mul}
    THEN IF args[1].kind = "const" /\ args[2].kind = "const"
         THEN Const(Arith(op, args[1].val, args[2].val))
         ELSE IF IsAlgebraic(args[1]) \/ IsAlgebraic(args[2]) THEN Term(op, args)
         ELSE Error
    ELSE Term(op, args)

\* values[obj], falling back to obj itself on KeyError.
Lookup(values, obj) == IF obj \in DOMAIN values THEN values[obj] ELSE obj

RECURSIVE recurse(_, _, _)
\* The inner function of ExpressionGraph.call.
recurse(g, values, node) ==
    LET obj == g.nodes[node]
    IN IF is_op(obj)
       THEN IF node \in DOMAIN g.edges
            THEN Apply(obj, [i \in 1..Len(g.edges[node]) |->
                                recurse(g, values, g.edges[node][i])])
            ELSE Error
       ELSE Lookup(values, obj)

\* ExpressionGraph.call
call(g, values) == recurse(g, values, g.head)

RECURSIVE EvalExpr(_, _)
\* The value of a requested expression: the operator applied, in argument
\* order, to the values of its arguments.
EvalExpr(e, values) ==
    IF e.kind = "term"
    THEN Apply(e.op, [i \in 1..Len(e.args) |-> EvalExpr(e.args[i], values)])
    ELSE Lookup(values, e)

(***************************************************************************)
(* Free symbols and temporal classification.                               *)
(***************************************************************************)
\* Mutant: SignalReference.symbols leaves the time variable out.
leaf_symbols_SignalOnly(obj) ==
    IF obj.kind \in {"var", "param", "sig"} THEN {obj} ELSE {}

\* obj.symbols() of a leaf: Variable.symbols, Parameter.symbols,
\* SignalReference.symbols; a constant has no such method (AttributeError).
leaf_symbols(obj) ==
    IF obj.kind \in {"var", "param"} THEN {obj}
    ELSE IF obj.kind = "sig" THEN {obj, get_time_variable}
    ELSE {}

RECURSIVE symbols_recurse_KeepsTime(_, _)
\* Mutant: a signal evaluation does not remove the time variable.
symbols_recurse_KeepsTime(g, node) ==
    LET obj == g.nodes[node]
    IN IF ~is_op(obj) THEN leaf_symbols(obj)
       ELSE UNION {symbols_recurse_KeepsTime(g, g.edges[node][i]) :
                        i \in 1..Len(g.edges[node])}

RECURSIVE symbols_recurse(_, _)
\* The inner function of ExpressionGraph.symbols.
symbols_recurse(g, node) ==
    LET obj == g.nodes[node]
    IN IF ~is_op(obj) THEN leaf_symbols(obj)
       ELSE LET child_symbols ==
                    UNION {symbols_recurse(g, g.edges[node][i]) :
                                i \in 1..Len(g.edges[node])}
            IN IF obj = evaluate_signal
               THEN child_symbols \ {get_time_variable}
               ELSE child_symbols

\* ExpressionGraph.symbols
symbols(g) == symbols_recurse(g, g.head)

PySet(items) == [kind |-> "set", items |-> items]
EmptyDict == [kind |-> "dict"]

\* a != b for a set a and a dict b: objects of different types are unequal.
PyNotEqual(a, b) == a.kind # b.kind \/ a.items # b.items

\* ExpressionGraph.is_symbolic: self.symbols() != {}, where {} is a dict.
ExpressionGraph_is_symbolic(g) == PyNotEqual(PySet(symbols(g)), EmptyDict)

\* Mutant: a SignalReference is not recognised as temporal.
is_temporal_leaf_OnlyTime(symbol) == symbol = get_time_variable

\* is_temporal on a value that is not a graph (lines 582-588).
is_temporal_leaf(symbol) ==
    IF symbol.kind = "sig" THEN TRUE
    ELSE IF symbol = get_time_variable THEN TRUE
    ELSE FALSE

RECURSIVE is_subtree_constant_NoShortcut(_, _)
\* Mutant: a signal evaluation is inspected like any other operator.
is_subtree_constant_NoShortcut(graph, node) ==
    LET obj == graph.nodes[node]
    IN IF ~is_op(obj) THEN ~is_temporal_leaf(obj)
       ELSE \A i \in 1..Len(graph.edges[node]) :
                is_subtree_constant_NoShortcut(graph, graph.edges[node][i])

RECURSIVE is_subtree_constant(_, _)
\* _is_subtree_constant
is_subtree_constant(graph, node) ==
    LET obj == graph.nodes[node]
    IN IF ~is_op(obj) THEN ~is_temporal_leaf(obj)
       ELSE IF obj = evaluate_signal THEN TRUE
       ELSE \A i \in 1..Len(graph.edges[node]) :
                is_subtree_constant(graph, graph.edges[node][i])

\* is_temporal: a graph (a record with nodes) or any other value.
is_temporal(symbol) ==
    IF "nodes" \in DOMAIN symbol
    THEN ~is_subtree_constant(symbol, symbol.head)
    ELSE is_temporal_leaf(symbol)

(***************************************************************************)
(* The driver: arbitrary constructions and pushes over a small universe,   *)
(* and the expressions built by the tests.                                 *)
(***************************************************************************)
x == Variable(1, scalar_shape)
p == Parameter(1, 0)
s == SignalReference(1)
c0 == Const(0)
c1 == Const(1)

Leaves == {x, s, get_time_variable}
TimeLiterals == {c1}
BinaryOps == {add}
UnaryOps == {neg}

GRefs == {GRef(k) : k \in 1..Len(graphs)}
Operands == Leaves \cup GRefs

ArgLists(op) ==
    IF op \in UnaryOps THEN {<<a>> : a \in Operands}
    ELSE {<<a, b>> : a \in Operands, b \in Operands}

\* ExpressionGraph(op, *args): a new graph object.
NewGraph(op, args) ==
    /\ graphs' = Append(graphs, ExpressionGraph(op, args, graphs))
    /\ expr' = Append(expr, TermOf(op, args, 0, <<>>, expr))

\* graphs[k].push_op(op, *args): graph k grows in place.
Push(k, op, args) ==
    /\ graphs' = [graphs EXCEPT ![k] = push_op(graphs[k], k, graphs, op, args)]
    /\ expr' = [expr EXCEPT ![k] = TermOf(op, args, k, expr[k], expr)]

Exploring ==
    /\ tpc = "explore"
    /\ steps < MaxSteps
    /\ steps' = steps + 1
    /\ UNCHANGED <<tpc, pvars, svars, hvars, cvars, ovars, tvars>>

Construct(op, args) ==
    /\ Exploring
    /\ Len(graphs) < MaxGraphs
    /\ NewGraph(op, args)

\* SignalReference.__call__
SignalCall(sig, t) ==
    /\ Exploring
    /\ Len(graphs) < MaxGraphs
    /\ NewGraph(evaluate_signal, <<sig, t>>)

PushOp(k, op, args) ==
    /\ Exploring
    /\ Push(k, op, args)

\* test_evaluate_graph, line 106: expression = 1 + var * sig(1) + param
TestEvaluateGraph ==
    /\ UNCHANGED <<steps, pvars, svars, hvars, cvars, ovars, tvars>>
    /\ \/ /\ tpc = "test_evaluate_graph"
          /\ NewGraph(evaluate_signal, <<s, c1>>)
          /\ tpc' = "sig(1)"
       \/ /\ tpc = "sig(1)"
          /\ NewGraph(mul, <<x, GRef(1)>>)
          /\ tpc' = "var * sig(1)"
       \/ /\ tpc = "var * sig(1)"
          /\ Push(2, add, <<c1, GRef(2)>>)
          /\ tpc' = "1 + var * sig(1)"
       \/ /\ tpc = "1 + var * sig(1)"
          /\ Push(2, add, <<GRef(2), p>>)
          /\ tpc' = "1 + var * sig(1) + param"

\* test_is_temporal, lines 87-92
TestIsTemporal ==
    /\ UNCHANGED <<steps, pvars, svars, hvars, cvars, ovars, tvars>>
    /\ \/ /\ tpc = "test_is_temporal"
          /\ NewGraph(add, <<x, p>>)
          /\ tpc' = "var + param"
       \/ /\ tpc = "var + param"
          /\ NewGraph(add, <<x, s>>)
          /\ tpc' = "var + sig"
       \/ /\ tpc = "var + sig"
          /\ NewGraph(add, <<p, s>>)
          /\ tpc' = "param + sig"
       \/ /\ tpc = "param + sig"
          /\ NewGraph(evaluate_signal, <<s, c0>>)
          /\ tpc' = "sig(0)"
       \/ /\ tpc = "sig(0)"
          /\ NewGraph(evaluate_signal, <<s, c1>>)
          /\ tpc' = "sig(1)."

\* test_variables_api, line 20: d + 2, 2 - d, -d
TestVariablesApi ==
    /\ UNCHANGED <<steps, pvars, svars, hvars, cvars, ovars, tvars>>
    /\ \/ /\ tpc = "test_variables_api"
          /\ NewGraph(add, <<x, Const(2)>>)
          /\ tpc' = "d + 2"
       \/ /\ tpc = "d + 2"
          /\ NewGraph(sub, <<Const(2), x>>)
          /\ tpc' = "2 - d"
       \/ /\ tpc = "2 - d"
          /\ NewGraph(neg, <<x>>)
          /\ tpc' = "-d"

\* An operator applied to numbers only, ExpressionGraph(neg, 1), and a number
\* added to the graph: no Variable, Parameter or SignalReference in it.
ConstantExpression ==
    /\ UNCHANGED <<steps, pvars, svars, hvars, cvars, ovars, tvars>>
    /\ \/ /\ tpc = "constants"
          /\ NewGraph(neg, <<c1>>)
          /\ tpc' = "neg(1)"
       \/ /\ tpc = "neg(1)"
          /\ Push(1, add, <<GRef(1), c0>>)
          /\ tpc' = "neg(1) + 0"

GIdle ==
    /\ graphs = <<>>
    /\ expr = <<>>
    /\ steps = 0
    /\ tpc = "off"

GInit ==
    /\ graphs = <<>>
    /\ expr = <<>>
    /\ steps = 0
    /\ tpc \in {"explore", "test_evaluate_graph", "test_is_temporal",
               "test_variables_api", "constants"}

GNext ==
    \/ \E op \in BinaryOps \cup UnaryOps : \E args \in ArgLists(op) : Construct(op, args)
    \/ \E t \in TimeLiterals \cup {get_time_variable} \cup GRefs : SignalCall(s, t)
    \/ \E k \in 1..Len(graphs) : \E op \in BinaryOps \cup UnaryOps :
            \E args \in ArgLists(op) : PushOp(k, op, args)
    \/ TestEvaluateGraph
    \/ TestIsTemporal
    \/ TestVariablesApi
    \/ ConstantExpression

(***************************************************************************)
(* Parameter: the table of instances, keyed by (id(block), index).         *)
(* A block object is <<address, serial>>: id(block) is its address, which   *)
(* a later block may get once the block has been reclaimed; the serial     *)
(* tells the objects apart.                                                *)
(***************************************************************************)
Addrs == 1..MaxAddrs
NoBlock == [alive |-> FALSE, serial |-> 0]
None == <<0, 0>>

\* block.parameters of every block of the model.
parameters == <<"a", "b">>

\* The block collaborator's lookup by name: the index, or ValueError (-1).
find_by_name(name) ==
    IF \E i \in 1..Len(parameters) : parameters[i] = name
    THEN (CHOOSE i \in 1..Len(parameters) : parameters[i] = name) - 1
    ELSE -1

\* list.index on block.parameters: the first index, or ValueError (-1).
parameters_index(name) ==
    IF \E i \in 1..Len(parameters) : parameters[i] = name
    THEN (CHOOSE i \in 1..Len(parameters) :
            parameters[i] = name /\ \A j \in 1..(i - 1) : parameters[j] # name) - 1
    ELSE -1

\* find_param_index_by_name: the index, or -1 for the ValueError it raises.
find_param_index_by_name(name) ==
    IF find_by_name(name) # -1 THEN find_by_name(name)
    ELSE parameters_index(name)

\* Mutant: the key leaves the index out.
ParameterUid_BlockOnly(addr, index) == <<addr, 0>>

\* uid = (id(block), index)
ParameterUid(addr, index) == <<addr, index>>

\* weakref.ref(block)(): the block while it is alive, None afterwards.
Deref(ref) ==
    IF blocks[ref[1]].alive /\ blocks[ref[1]].serial = ref[2] THEN ref ELSE None

\* Parameter.get_source_and_slice: (source, (start, stop)); step is None.
get_source_and_slice(obj) ==
    [source |-> Deref(obj.parent), start |-> obj.index, stop |-> obj.index + 1]

\* The requests of the model: indices (one of them out of range) and names
\* (one of them unknown).
ByIndex(i) == [index |-> i]
ByName(n) == [name |-> n]
ParameterArgs == {ByIndex(i) : i \in {0, 1, 2}} \cup {ByName(n) : n \in {"a", "zz"}}

\* isinstance(parameter, str)
IsName(parameter) == "name" \in DOMAIN parameter

NewBlock(addr) ==
    /\ ~blocks[addr].alive
    /\ nblocks < MaxBlocks
    /\ nblocks' = nblocks + 1
    /\ blocks' = [blocks EXCEPT ![addr] = [alive |-> TRUE, serial |-> nblocks + 1]]
    /\ coexisted' = coexisted \cup
            {{nblocks + 1, blocks[a].serial} : a \in {b \in Addrs : blocks[b].alive}}
    /\ UNCHANGED <<ptable, preq, phist, gvars, svars, hvars, cvars, ovars, tvars>>

\* The last reference to the block goes away and the block is reclaimed: the
\* table holds the Parameters, and they hold only a weak reference to it.
ReclaimBlock(addr) ==
    /\ blocks[addr].alive
    /\ blocks' = [blocks EXCEPT ![addr].alive = FALSE]
    /\ UNCHANGED <<nblocks, ptable, preq, phist, coexisted, gvars, svars, hvars, cvars, ovars, tvars>>

\* Parameter.__new__(cls, block, parameter)
RequestParameter(addr, parameter) ==
    /\ blocks[addr].alive
    /\ LET block == <<addr, blocks[addr].serial>>
           index == IF IsName(parameter)
                    THEN find_param_index_by_name(parameter.name)
                    ELSE parameter.index
           uid == ParameterUid(addr, index)
           obj == IF uid \in DOMAIN ptable THEN ptable[uid]
                  ELSE [oid |-> Cardinality(DOMAIN ptable) + 1, uid |-> uid,
                        index |-> index, parent |-> block]
       IN IF IsName(parameter) /\ index = -1
          THEN /\ preq' = [block |-> block, parameter |-> parameter,
                           outcome |-> "ValueError"]
               /\ UNCHANGED <<ptable, phist>>
          ELSE IF ~(0 <= index /\ index < Len(parameters))
          THEN /\ preq' = [block |-> block, parameter |-> parameter,
                           outcome |-> "AssertionError"]
               /\ UNCHANGED <<ptable, phist>>
          ELSE /\ ptable' = [u \in DOMAIN ptable \cup {uid} |->
                                IF u = uid THEN obj ELSE ptable[u]]
               /\ preq' = [block |-> block, parameter |-> parameter,
                           outcome |-> "returned", index |-> index, obj |-> obj,
                           cached |-> uid \in DOMAIN ptable]
               /\ phist' = [key \in DOMAIN phist \cup {<<block, index>>} |->
                                (IF key \in DOMAIN phist THEN phist[key] ELSE {})
                                \cup (IF key = <<block, index>> THEN {obj.oid} ELSE {})]
    /\ UNCHANGED <<blocks, nblocks, coexisted, gvars, svars, hvars, cvars, ovars, tvars>>

PIdle ==
    /\ blocks = [a \in Addrs |-> NoBlock]
    /\ nblocks = 0
    /\ ptable = <<>>
    /\ preq = [outcome |-> "none"]
    /\ phist = <<>>
    /\ coexisted = {}

PNext ==
    \/ \E a \in Addrs : NewBlock(a)
    \/ \E a \in Addrs : ReclaimBlock(a)
    \/ \E a \in Addrs : \E parameter \in ParameterArgs : RequestParameter(a, parameter)

(***************************************************************************)
(* SignalReference: the cache of weak references, keyed by id(port).       *)
(* A port object is <<address, serial>>, like a block.  A SignalReference  *)
(* keeps its port alive (self.port); the cache keeps nothing alive.  An    *)
(* object nobody references is collected at some later step.               *)
(***************************************************************************)
NoPort == [alive |-> FALSE, serial |-> 0, held |-> FALSE]

\* Mutant: the cached reference is strong in effect: a dead instance comes back.
SignalDeref_Dead(o) == o

\* SignalReference._signals[source_id](): the instance, or 0 (None) once it
\* has been collected.
SignalDeref(o) == IF sigs[o].live THEN o ELSE 0

PortOf(a) == <<a, ports[a].serial>>

NewPort(a) ==
    /\ ~ports[a].alive
    /\ nports < MaxPorts
    /\ nports' = nports + 1
    /\ ports' = [ports EXCEPT ![a] = [alive |-> TRUE, serial |-> nports + 1,
                                      held |-> TRUE]]
    /\ UNCHANGED <<sigs, signals, sreq, gvars, pvars, hvars, cvars, ovars, tvars>>

\* The program drops its own references to the port.
DropPort(a) ==
    /\ ports[a].alive /\ ports[a].held
    /\ ports' = [ports EXCEPT ![a].held = FALSE]
    /\ UNCHANGED <<nports, sigs, signals, sreq, gvars, pvars, hvars, cvars, ovars, tvars>>

\* A port referenced neither by the program nor by a live SignalReference is
\* reclaimed; its address becomes free.
ReclaimPort(a) ==
    /\ ports[a].alive /\ ~ports[a].held
    /\ \A o \in 1..Len(sigs) : sigs[o].live => sigs[o].port # PortOf(a)
    /\ ports' = [ports EXCEPT ![a].alive = FALSE]
    /\ UNCHANGED <<nports, sigs, signals, sreq, gvars, pvars, hvars, cvars, ovars, tvars>>

\* SignalReference(port): __new__, then __init__ on the instance returned.
RequestSignal(a) ==
    /\ ports[a].alive
    /\ \/ ports[a].held
       \/ \E o \in 1..Len(sigs) : sigs[o].live /\ sigs[o].held /\ sigs[o].port = PortOf(a)
    /\ LET cached == IF a \in DOMAIN signals THEN SignalDeref(signals[a]) ELSE 0
       IN IF cached # 0
          THEN /\ sigs' = [sigs EXCEPT ![cached].port = PortOf(a),
                                       ![cached].held = TRUE]
               /\ sreq' = [port |-> PortOf(a), result |-> cached]
               /\ UNCHANGED signals
          ELSE /\ Len(sigs) < MaxSignals
               /\ sigs' = Append(sigs, [port |-> PortOf(a), held |-> TRUE,
                                        live |-> TRUE])
               /\ signals' = [k \in DOMAIN signals \cup {a} |->
                                IF k = a THEN Len(sigs) + 1 ELSE signals[k]]
               /\ sreq' = [port |-> PortOf(a), result |-> Len(sigs) + 1]
    /\ UNCHANGED <<ports, nports, gvars, pvars, hvars, cvars, ovars, tvars>>

\* The program drops every reference it holds to the instance.
DropSignal(o) ==
    /\ sigs[o].live /\ sigs[o].held
    /\ sigs' = [sigs EXCEPT ![o].held = FALSE]
    /\ UNCHANGED <<ports, nports, signals, sreq, gvars, pvars, hvars, cvars, ovars, tvars>>

\* The unreferenced instance is collected: weak references to it are dead.
CollectSignal(o) ==
    /\ sigs[o].live /\ ~sigs[o].held
    /\ sigs' = [sigs EXCEPT ![o].live = FALSE]
    /\ UNCHANGED <<ports, nports, signals, sreq, gvars, pvars, hvars, cvars, ovars, tvars>>

SIdle ==
    /\ ports = [a \in Addrs |-> NoPort]
    /\ nports = 0
    /\ sigs = <<>>
    /\ signals = <<>>
    /\ sreq = [port |-> None, result |-> 0]

SNext ==
    \/ \E a \in Addrs : NewPort(a)
    \/ \E a \in Addrs : DropPort(a)
    \/ \E a \in Addrs : ReclaimPort(a)
    \/ \E a \in Addrs : RequestSignal(a)
    \/ \E o \in 1..Len(sigs) : DropSignal(o)
    \/ \E o \in 1..Len(sigs) : CollectSignal(o)

(***************************************************************************)
(* Shapes.  A shape function returns a shape or raises: Ok(shape) or        *)
(* Raise(exception).                                                       *)
(***************************************************************************)
Ok(shape) == [ok |-> TRUE, shape |-> shape]
Raise(ex) == [ok |-> FALSE, error |-> ex]

RECURSIVE infer_scalar_loop(_, _, _)
infer_scalar_loop(this_shape, shapes, i) ==
    IF i > Len(shapes) THEN Ok(this_shape)
    ELSE IF shapes[i] \in {this_shape, scalar_shape}
         THEN infer_scalar_loop(this_shape, shapes, i + 1)
         ELSE IF this_shape = scalar_shape
              THEN infer_scalar_loop(shapes[i], shapes, i + 1)
              ELSE Raise("AttributeError")

infer_scalar_shape(shapes) ==
    IF Len(shapes) = 0 THEN Raise("IndexError")
    ELSE infer_scalar_loop(shapes[1], shapes, 2)

RECURSIVE matmul_loop_KeepsM(_, _, _, _)
\* Mutant: the loop does not carry the column count of the factor it passed.
matmul_loop_KeepsM(n, m, shapes, i) ==
    IF i > Len(shapes) THEN Ok(<<n, m>>)
    ELSE IF Len(shapes[i]) # 2 THEN Raise("ValueError")
    ELSE IF m # shapes[i][1] THEN Raise("AttributeError")
    ELSE matmul_loop_KeepsM(n, m, shapes, i + 1)

RECURSIVE matmul_loop(_, _, _, _)
\* The for loop of matmul_shape; unpacking a shape that is not a pair raises
\* ValueError.
matmul_loop(n, m, shapes, i) ==
    IF i > Len(shapes) THEN Ok(<<n, m>>)
    ELSE IF Len(shapes[i]) # 2 THEN Raise("ValueError")
    ELSE IF m # shapes[i][1] THEN Raise("AttributeError")
    ELSE matmul_loop(n, shapes[i][2], shapes, i + 1)

matmul_shape(shapes) ==
    IF Len(shapes) = 0 THEN Raise("IndexError")
    ELSE IF Len(shapes[1]) # 2 THEN Raise("ValueError")
    ELSE matmul_loop(shapes[1][1], shapes[1][2], shapes, 2)

\* transpose_shape takes exactly one shape.
transpose_shape(shapes) ==
    IF Len(shapes) # 1 THEN Raise("TypeError")
    ELSE IF Len(shapes[1]) # 2 THEN Raise("ValueError")
    ELSE Ok(<<shapes[1][2], shapes[1][1]>>)

\* __shape_ops[op](*shapes), as the register_op decorators fill the table.
infer_shape(op, shapes) ==
    IF op = matmul THEN matmul_shape(shapes)
    ELSE IF op = transpose THEN transpose_shape(shapes)
    ELSE infer_scalar_shape(shapes)

RECURSIVE get_shape_of(_, _)
\* ExpressionGraph._get_shape_of; an exception raised for a child leaves the
\* list comprehension at the first child that raises.  The leaves here are
\* Variables, Parameters and numbers.
get_shape_of(g, node) ==
    IF node \in DOMAIN g.edges
    THEN LET shapes == [i \in 1..Len(g.edges[node]) |->
                            get_shape_of(g, g.edges[node][i])]
             bad == {i \in 1..Len(shapes) : ~shapes[i].ok}
         IN IF bad # {}
            THEN shapes[CHOOSE i \in bad : \A j \in bad : i <= j]
            ELSE infer_shape(g.nodes[node], [i \in 1..Len(shapes) |-> shapes[i].shape])
    ELSE LET obj == g.nodes[node]
         IN IF obj.kind = "var" THEN Ok(obj.shape)
            ELSE IF obj.kind \in {"param", "const"} THEN Ok(scalar_shape)
            ELSE Raise("NotImplementedError")

\* ExpressionGraph.shape
shape(g) == get_shape_of(g, g.head)

(***************************************************************************)
(* Matrix products of Variables: X @ Y, graph @ Y, X @ graph and the       *)
(* operator applied to several factors at once.  One Variable per shape,   *)
(* so a repeated factor is the same object.  After every step the program  *)
(* asks for matmul_shape of the factors' shapes and for the graph's shape. *)
(***************************************************************************)
Shapes2D == (2..MaxDim) \X (2..MaxDim)

MatVar(shp) == Variable(10 * shp[1] + shp[2], shp)

NoResult == Raise("none")

Product(newchain, newgraph) ==
    /\ chain' = newchain
    /\ mgraph' = newgraph
    /\ fres' = matmul_shape(newchain)
    /\ mres' = shape(newgraph)
    /\ UNCHANGED <<gvars, pvars, svars, cvars, ovars, tvars>>

\* graph @ Y (ExpressionGraph.__matmul__), or X @ Y (Algebraic.__matmul__).
MatmulRight(shp) ==
    /\ Len(chain) < MaxChain
    /\ Product(Append(chain, shp),
               IF Len(chain) = 1
               THEN ExpressionGraph(matmul, <<MatVar(chain[1]), MatVar(shp)>>, <<>>)
               ELSE push_op(mgraph, 1, <<mgraph>>, matmul, <<GRef(1), MatVar(shp)>>))

\* X @ graph (ExpressionGraph.__rmatmul__), or X @ Y (Algebraic.__rmatmul__).
MatmulLeft(shp) ==
    /\ Len(chain) < MaxChain
    /\ Product(<<shp>> \o chain,
               IF Len(chain) = 1
               THEN ExpressionGraph(matmul, <<MatVar(shp), MatVar(chain[1])>>, <<>>)
               ELSE push_op(mgraph, 1, <<mgraph>>, matmul, <<MatVar(shp), GRef(1)>>))

\* ExpressionGraph(matmul, X1, ..., Xk): one node over k factors.
MatmulNode(rest) ==
    /\ Len(chain) = 1
    /\ Product(chain \o rest,
               ExpressionGraph(matmul,
                    [i \in 1..(1 + Len(rest)) |-> MatVar((chain \o rest)[i])], <<>>))

HIdle ==
    /\ chain = <<>>
    /\ mgraph = EmptyGraph
    /\ fres = NoResult
    /\ mres = NoResult

\* The first factor is any matrix Variable; no graph is built yet.
HInit ==
    /\ chain \in {<<shp>> : shp \in Shapes2D}
    /\ mgraph = EmptyGraph
    /\ fres = matmul_shape(chain)
    /\ mres = NoResult

HNext ==
    \/ \E shp \in Shapes2D : MatmulRight(shp)
    \/ \E shp \in Shapes2D : MatmulLeft(shp)
    \/ \E k \in 2..(MaxChain - 1) : \E rest \in [1..k -> Shapes2D] : MatmulNode(rest)

(***************************************************************************)
(* The cast registry: from_type -> (to_type -> caster).                     *)
(***************************************************************************)
FromTypes == {"int", "float"}
ToTypes == {"Variable", "Parameter", "ExpressionGraph"}
Casters == {1, 2}

\* Mutant: no assertion, a second registration replaces the converter.
decorator_Overwrite(reg, from_type, to_type, the_caster) ==
    [registry |-> [f \in (DOMAIN reg) \cup {from_type} |->
                    IF f = from_type
                    THEN [k \in (IF f \in DOMAIN reg THEN DOMAIN reg[f] ELSE {})
                                \cup {to_type} |->
                            IF k = to_type THEN the_caster ELSE reg[f][k]]
                    ELSE reg[f]],
     outcome |-> "registered"]

\* The decorator returned by register(from_type, to_type), applied to
\* the_caster: the registry after the call and how the call ended.
decorator(reg, from_type, to_type, the_caster) ==
    IF from_type \in DOMAIN reg /\ to_type \in DOMAIN reg[from_type]
    THEN [registry |-> reg, outcome |-> "AssertionError"]
    ELSE [registry |-> [f \in (DOMAIN reg) \cup {from_type} |->
                    IF f = from_type
                    THEN [k \in (IF f \in DOMAIN reg THEN DOMAIN reg[f] ELSE {})
                                \cup {to_type} |->
                            IF k = to_type THEN the_caster ELSE reg[f][k]]
                    ELSE reg[f]],
          outcome |-> "registered"]

register(from_type, to_type, the_caster) ==
    LET r == decorator(registry, from_type, to_type, the_caster)
    IN /\ registry' = r.registry
       /\ creq' = [from_type |-> from_type, to_type |-> to_type,
                   caster |-> the_caster, outcome |-> r.outcome]
       /\ UNCHANGED <<cres, gvars, pvars, svars, hvars, ovars, tvars>>

\* The types of the values cast: bool is a subclass of int, never registered.
ValueTypes == FromTypes \cup {"bool"}

\* to_type=None
NoType == "None"

\* caster(var), for a value of type from_type.
Applied(caster, from_type) == [ok |-> TRUE, caster |-> caster, var |-> from_type]

\* Mutant: with several converters and no target, one of them is applied.
cast_type_AnyCaster(reg, from_type, to_type) ==
    IF to_type = NoType
    THEN IF from_type \notin DOMAIN reg THEN Raise("NotImplementedError")
         ELSE Applied(reg[from_type][CHOOSE k \in DOMAIN reg[from_type] : TRUE],
                      from_type)
    ELSE IF from_type \in DOMAIN reg /\ to_type \in DOMAIN reg[from_type]
         THEN Applied(reg[from_type][to_type], from_type)
         ELSE Raise("NotImplementedError")

\* cast_type(var, to_type) for a var with type(var) = from_type.
cast_type(reg, from_type, to_type) ==
    IF to_type = NoType
    THEN IF from_type \notin DOMAIN reg THEN Raise("NotImplementedError")
         ELSE IF Cardinality(DOMAIN reg[from_type]) # 1 THEN Raise("TypeError")
         ELSE Applied(reg[from_type][CHOOSE k \in DOMAIN reg[from_type] : TRUE],
                      from_type)
    ELSE IF from_type \in DOMAIN reg /\ to_type \in DOMAIN reg[from_type]
         THEN Applied(reg[from_type][to_type], from_type)
         ELSE Raise("NotImplementedError")

\* cast_like(var, var_like) for a var_like with type(var_like) = like_type.
cast_like(reg, from_type, like_type) == cast_type(reg, from_type, like_type)

CastType(from_type, to_type) ==
    /\ cres' = [call |-> "cast_type", from_type |-> from_type, to_type |-> to_type,
                result |-> cast_type(registry, from_type, to_type)]
    /\ UNCHANGED <<registry, creq, gvars, pvars, svars, hvars, ovars, tvars>>

CastLike(from_type, like_type) ==
    /\ cres' = [call |-> "cast_like", from_type |-> from_type, to_type |-> like_type,
                result |-> cast_like(registry, from_type, like_type)]
    /\ UNCHANGED <<registry, creq, gvars, pvars, svars, hvars, ovars, tvars>>

CIdle ==
    /\ registry = <<>>
    /\ creq = [from_type |-> "", to_type |-> "", caster |-> 0, outcome |-> "none"]
    /\ cres = [call |-> "none", from_type |-> "", to_type |-> "", result |-> NoResult]

CNext ==
    \/ \E f \in FromTypes : \E k \in ToTypes : \E c \in Casters : register(f, k, c)
    \/ \E f \in ValueTypes : \E k \in ToTypes \cup {NoType} : CastType(f, k)
    \/ \E f \in ValueTypes : \E k \in ToTypes : CastLike(f, k)

(***************************************************************************)
(* Hashing.  hash() of a Python object: a dict is unhashable, a tuple is   *)
(* hashed from its items and is unhashable when one of them is, and the    *)
(* leaves and operators hash by identity or value.                         *)
(***************************************************************************)
PyDict(d) == [kind |-> "dict", items |-> d]
PyInt(n) == [kind |-> "int", val |-> n]

\* hash(n) of a node value: Variable by id, Parameter by uid, SignalReference
\* by port, a function by identity, a number by value.
hash_node(value) == PyInt(value)

\* hash of a tuple
hash_tuple(items) ==
    IF \E i \in 1..Len(items) : items[i].kind = "dict"
    THEN Raise("TypeError")
    ELSE Ok(items)

\* ExpressionGraph.__hash__: hash((self.edges, *[hash(n) for n in self.nodes]))
ExpressionGraph_hash(g) ==
    hash_tuple(<<PyDict(g.edges)>> \o [i \in 1..Len(g.nodes) |-> hash_node(g.nodes[i])])

(***************************************************************************)
(* lambdify.  An entry of the argument specification is a leaf or a list   *)
(* of leaves, PyList(items).  substitutions is a dict, which keeps its     *)
(* keys in the order of their first insertion: a sequence of <<key,        *)
(* value>>.  The graphs of the model hold no matrix constant.              *)
(***************************************************************************)
PyList(items) == [kind |-> "list", items |-> items]

\* SymbolicVector(f'x_{i}', n) and its component symbol[j].
SymbolicVector(i, n) == [kind |-> "symvec", id |-> i, len |-> n]
Component(symbol, j) == [kind |-> "component", of |-> symbol, j |-> j]

\* arg.shape of a Variable or Parameter.
shape_of_leaf(obj) == IF obj.kind = "var" THEN obj.shape ELSE scalar_shape

\* substitutions[key] = value
DictSet(d, key, value) ==
    IF \E i \in 1..Len(d) : d[i][1] = key
    THEN [i \in 1..Len(d) |-> IF d[i][1] = key THEN <<key, value>> ELSE d[i]]
    ELSE Append(d, <<key, value>>)

RECURSIVE DictUpdateComponents(_, _, _, _)
\* substitutions.update({sub_arg: symbol[j] for j, sub_arg in enumerate(arg)})
DictUpdateComponents(d, items, symbol, j) ==
    IF j > Len(items) THEN d
    ELSE DictUpdateComponents(DictSet(d, items[j], Component(symbol, j - 1)),
                              items, symbol, j + 1)

RECURSIVE lambdify_substitutions(_, _, _)
\* The first loop of lambdify, from entry i on (i counts from 1 here, the
\* names from 0): the dict, or the exception raised.
lambdify_substitutions(arguments, i, d) ==
    IF i > Len(arguments) THEN Ok(d)
    ELSE LET arg == arguments[i]
         IN IF arg.kind = "list"
            THEN IF \E j \in 1..Len(arg.items) :
                        shape_of_leaf(arg.items[j]) # scalar_shape
                 THEN Raise("AssertionError")
                 ELSE lambdify_substitutions(arguments, i + 1,
                        DictUpdateComponents(d, arg.items,
                            SymbolicVector(i - 1, Len(arg.items)), 1))
            ELSE IF Len(shape_of_leaf(arg)) # 1 THEN Raise("ValueError")
                 ELSE lambdify_substitutions(arguments, i + 1,
                        DictSet(d, arg, SymbolicVector(i - 1, shape_of_leaf(arg)[1])))

\* substitutions[obj], falling back to obj on KeyError.
Substitute(d, obj) ==
    IF \E i \in 1..Len(d) : d[i][1] = obj
    THEN d[CHOOSE i \in 1..Len(d) : d[i][1] = obj][2]
    ELSE obj

RECURSIVE lambdify_recurse(_, _, _)
\* The inner function of lambdify; obj(*args) is left as the application.
lambdify_recurse(g, d, node) ==
    LET obj == g.nodes[node]
    IN IF is_op(obj)
       THEN Term(obj, [i \in 1..Len(g.edges[node]) |->
                            lambdify_recurse(g, d, g.edges[node][i])])
       ELSE Substitute(d, obj)

\* lambdify: what backend.lambdify is called with.
lambdify(g, arguments) ==
    LET r == lambdify_substitutions(arguments, 1, <<>>)
    IN IF ~r.ok THEN r
       ELSE [ok |-> TRUE,
             symbolic_expressions |-> lambdify_recurse(g, r.shape, g.head),
             symbols |-> [i \in 1..Len(r.shape) |-> r.shape[i][2]]]

(***************************************************************************)
(* The operator registry: __ops and __shape_ops, filled at import by the   *)
(* register_op decorators and extended by later registrations.  The key    *)
(* None of __ops (a function of variable arguments) is written NoArity.    *)
(***************************************************************************)
NoArity == -1

shape_ops_table ==
    [f \in {power, add, sub, matmul, neg, mul, div, transpose, evaluate_signal} |->
        IF f = matmul THEN "matmul_shape"
        ELSE IF f = transpose THEN "transpose_shape"
        ELSE "infer_scalar_shape"]

\* Functions registered after import: sin(x), and vstack(*args).
sin == Operator(10)
vstack == Operator(11)

\* register_op: None for a function with *args or **kwargs, else the number
\* of parameters of its signature.
SignatureIndex(func) ==
    IF func = vstack THEN NoArity
    ELSE IF func \in {neg, transpose, sin} THEN 1
    ELSE 2

\* __ops[idx].append(func) on the defaultdict(list).
OpsAppend(table, idx, func) ==
    [n \in (DOMAIN table) \cup {idx} |->
        IF n = idx
        THEN Append(IF n \in DOMAIN table THEN table[n] ELSE <<>>, func)
        ELSE table[n]]

\* __shape_ops[func] = shape_func
ShapeOpsSet(table, func, shape_func) ==
    [f \in (DOMAIN table) \cup {func} |-> IF f = func THEN shape_func ELSE table[f]]

Registering(func, idx, shape_func, by) ==
    /\ oreq.count < MaxRegistrations
    /\ ops' = OpsAppend(ops, idx, func)
    /\ shape_ops' = ShapeOpsSet(shape_ops, func, shape_func)
    /\ oreq' = [count |-> oreq.count + 1, by |-> by, func |-> func,
                outcome |-> "registered"]
    /\ UNCHANGED <<gvars, pvars, svars, hvars, cvars, tvars>>

\* register_op(shape_func)(func)
register_op(shape_func, func) ==
    Registering(func, SignatureIndex(func), shape_func, "register_op")

\* wrap_as_op(func, arguments, shape_func)
wrap_as_op(func, arguments, shape_func) ==
    Registering(func, arguments, shape_func, "wrap_as_op")

ShapeFuncs == {"infer_scalar_shape", "matmul_shape"}
NewFuncs == {add, sin, vstack}

OIdle ==
    /\ ops = ops_table
    /\ shape_ops = shape_ops_table
    /\ oreq = [count |-> 0, by |-> "import", func |-> evaluate_signal,
               outcome |-> "registered"]

ONext ==
    \/ \E f \in NewFuncs : \E sf \in ShapeFuncs : register_op(sf, f)
    \/ \E f \in NewFuncs : \E n \in {1, 2, NoArity} : \E sf \in ShapeFuncs :
            wrap_as_op(f, n, sf)

(***************************************************************************)
(* Two threads, each requesting Parameter(block, i) and then               *)
(* SignalReference(port) for one block, index and port.  A step of a       *)
(* thread is one statement of __new__; in the locked runs the caller holds *)
(* one lock around each request.  Every instance is referenced by the      *)
(* thread that made or received it, so the weak references are alive.      *)
(***************************************************************************)
Threads == {1, 2}
Caches == <<"Parameter", "SignalReference">>
NoInstances == [c \in {"Parameter", "SignalReference"} |-> 0]

\* Mutant: the new instance is not put in the cache.
CacheStore_Dropped(cache, c, obj) == cache

\* Parameter._table[uid] = obj; SignalReference._signals[source_id] =
\* weakref.ref(new_signal)
CacheStore(cache, c, obj) == [cache EXCEPT ![c] = obj]

\* The caller starts the request, taking the lock in the locked runs.
ThreadEnter(i) ==
    /\ tmode # "off"
    /\ thr[i].pc = "idle"
    /\ thr[i].phase <= Len(Caches)
    /\ IF tmode = "locked" THEN tlock = 0 /\ tlock' = i ELSE UNCHANGED tlock
    /\ thr' = [thr EXCEPT ![i].pc = "lookup"]
    /\ UNCHANGED <<tcache, tobjs, tmode, gvars, pvars, svars, hvars, cvars, ovars>>

\* try: return Parameter._table[uid] / new_signal = _signals[source_id]()
ThreadLookup(i) ==
    /\ thr[i].pc = "lookup"
    /\ LET c == Caches[thr[i].phase]
       IN thr' = IF tcache[c] # 0
                 THEN [thr EXCEPT ![i].pc = "return", ![i].ret[c] = tcache[c]]
                 ELSE [thr EXCEPT ![i].pc = "construct"]
    /\ UNCHANGED <<tcache, tobjs, tlock, tmode, gvars, pvars, svars, hvars, cvars, ovars>>

\* obj = Algebraic.__new__(cls) / new_signal = super().__new__(cls)
ThreadConstruct(i) ==
    /\ thr[i].pc = "construct"
    /\ LET c == Caches[thr[i].phase]
       IN /\ tobjs' = [tobjs EXCEPT ![c] = tobjs[c] + 1]
          /\ thr' = [thr EXCEPT ![i].pc = "insert", ![i].obj = tobjs[c] + 1]
    /\ UNCHANGED <<tcache, tlock, tmode, gvars, pvars, svars, hvars, cvars, ovars>>

\* The cache is written and the instance returned.
ThreadInsert(i) ==
    /\ thr[i].pc = "insert"
    /\ LET c == Caches[thr[i].phase]
       IN /\ tcache' = CacheStore(tcache, c, thr[i].obj)
          /\ thr' = [thr EXCEPT ![i].pc = "return", ![i].ret[c] = thr[i].obj]
    /\ UNCHANGED <<tobjs, tlock, tmode, gvars, pvars, svars, hvars, cvars, ovars>>

\* The caller has its instance, releases the lock if it holds it and goes on
\* to its next request.
ThreadReturn(i) ==
    /\ thr[i].pc = "return"
    /\ thr' = [thr EXCEPT ![i].pc = "idle", ![i].phase = thr[i].phase + 1]
    /\ tlock' = IF tlock = i THEN 0 ELSE tlock
    /\ UNCHANGED <<tcache, tobjs, tmode, gvars, pvars, svars, hvars, cvars, ovars>>

TIdle ==
    /\ thr = [i \in Threads |-> [pc |-> "idle", phase |-> 1, obj |-> 0,
                                 ret |-> NoInstances]]
    /\ tcache = NoInstances
    /\ tobjs = NoInstances
    /\ tlock = 0
    /\ tmode = "off"

TInit ==
    /\ thr = [i \in Threads |-> [pc |-> "idle", phase |-> 1, obj |-> 0,
                                 ret |-> NoInstances]]
    /\ tcache = NoInstances
    /\ tobjs = NoInstances
    /\ tlock = 0
    /\ tmode \in {"bare", "locked"}

TNext ==
    \/ \E i \in Threads : ThreadEnter(i)
    \/ \E i \in Threads : ThreadLookup(i)
    \/ \E i \in Threads : ThreadConstruct(i)
    \/ \E i \in Threads : ThreadInsert(i)
    \/ \E i \in Threads : ThreadReturn(i)

\* Each specification runs one part of the program; the other parts stay in
\* their state after import.
Init == GInit /\ PIdle /\ SIdle /\ HIdle /\ CIdle /\ OIdle /\ TIdle

Spec == Init /\ [][GNext]_vars

InitParam == GIdle /\ PIdle /\ SIdle /\ HIdle /\ CIdle /\ OIdle /\ TIdle

SpecParam == InitParam /\ [][PNext]_vars

InitSignal == GIdle /\ PIdle /\ SIdle /\ HIdle /\ CIdle /\ OIdle /\ TIdle

SpecSignal == InitSignal /\ [][SNext]_vars

InitShape == GIdle /\ PIdle /\ SIdle /\ HInit /\ CIdle /\ OIdle /\ TIdle

SpecShape == InitShape /\ [][HNext]_vars

InitCast == GIdle /\ PIdle /\ SIdle /\ HIdle /\ CIdle /\ OIdle /\ TIdle

SpecCast == InitCast /\ [][CNext]_vars

InitOps == GIdle /\ PIdle /\ SIdle /\ HIdle /\ CIdle /\ OIdle /\ TIdle

SpecOps == InitOps /\ [][ONext]_vars

InitThreads == GIdle /\ PIdle /\ SIdle /\ HIdle /\ CIdle /\ OIdle /\ TInit

SpecThreads == InitThreads /\ [][TNext]_vars

(***************************************************************************)
(* The bindings evaluation is checked under.                               *)
(***************************************************************************)
BindingOf(keys) ==
    [l \in keys |->
        IF l = x THEN Const(2)
        ELSE IF l = p THEN Const(3)
        ELSE IF l = s THEN Fn(1)
        ELSE Const(1)]

Bindings == {BindingOf(keys) : keys \in SUBSET {x, p, s, get_time_variable}}
AllBound == BindingOf({x, p, s, get_time_variable})

\* C1: for every graph built, under every binding, call gives the operator
\* applied in argument order to the values of the arguments (a bound leaf its
\* binding, an unbound leaf itself, a bound signal under signal evaluation
\* y(t), a graph argument its own value): merging changes no result.
C1_CallIsOpOfArgs ==
    \A k \in 1..Len(graphs) : \A b \in Bindings :
        call(graphs[k], b) = EvalExpr(expr[k], b)

\* A graph that merged a graph argument sharing a leaf with it, evaluated to
\* a number with its signal bound to a callable.
C1_Witness ==
    \E k \in 1..Len(graphs) :
        LET g == graphs[k]
        IN /\ \E i \in 1..Len(expr[k].args) : expr[k].args[i].kind = "term"
           /\ \E m, n \in DOMAIN g.edges : m # n /\
                \E i \in 1..Len(g.edges[m]) : \E j \in 1..Len(g.edges[n]) :
                    g.edges[m][i] = g.edges[n][j] /\ ~is_op(g.nodes[g.edges[m][i]])
           /\ \E n \in DOMAIN g.edges : g.nodes[n] = evaluate_signal
           /\ call(g, AllBound).kind = "const"

(***************************************************************************)
(* Occurrences of leaves in a requested expression: <<leaf, shielded>>,    *)
(* shielded when the path from the root passes a signal evaluation.        *)
(***************************************************************************)
RECURSIVE Occurrences(_, _)
Occurrences(e, shielded) ==
    IF e.kind = "term"
    THEN UNION {Occurrences(e.args[i], shielded \/ e.op = evaluate_signal) :
                    i \in 1..Len(e.args)}
    ELSE {<<e, shielded>>}

IsTimeLike(l) == l.kind = "sig" \/ l = get_time_variable

\* C2: no two distinct indices of a graph hold equal leaf values, and every
\* construction or push puts its operator in a fresh node, which becomes the
\* head: operators are never deduplicated.
C2_LeavesUnique ==
    \A k \in 1..Len(graphs) : \A i, j \in 1..Len(graphs[k].nodes) :
        (i # j /\ graphs[k].nodes[i] = graphs[k].nodes[j]) => is_op(graphs[k].nodes[i])

C2_OperatorFresh ==
    \A k \in 1..Len(graphs') :
        IF k <= Len(graphs)
        THEN graphs'[k] # graphs[k] =>
                /\ graphs'[k].head = Len(graphs[k].nodes) + 1
                /\ is_op(graphs'[k].nodes[graphs'[k].head])
                /\ SubSeq(graphs'[k].nodes, 1, Len(graphs[k].nodes)) = graphs[k].nodes
        ELSE /\ graphs'[k].head = 1
             /\ is_op(graphs'[k].nodes[1])

C6_SymbolsRule ==
    /\ \A k \in 1..Len(graphs) :
        LET occ == Occurrences(expr[k], FALSE)
        IN symbols(graphs[k]) =
              {o[1] : o \in {q \in occ : q[1].kind \in {"var", "param", "sig"}
                                          /\ q[1] # get_time_variable}}
              \cup (IF \E o \in occ : IsTimeLike(o[1]) /\ ~o[2]
                    THEN {get_time_variable} ELSE {})
    /\ tpc = "1 + var * sig(1) + param" => symbols(graphs[2]) = {x, s, p}

C6_Witness ==
    /\ tpc = "1 + var * sig(1) + param"
    /\ expr[2] = Term(add, <<Term(add, <<c1, Term(mul, <<x, Term(evaluate_signal, <<s, c1>>)>>)>>), p>>)
    /\ get_time_variable \notin symbols(graphs[2])

\* C7: a bare Variable or Parameter is not temporal, a bare SignalReference
\* and the time variable are; a graph is temporal iff the time variable or a
\* SignalReference occurs in it outside every signal evaluation; the cases of
\* test_is_temporal.
C7_IsTemporal ==
    /\ ~is_temporal(x) /\ ~is_temporal(p)
    /\ is_temporal(s) /\ is_temporal(get_time_variable)
    /\ \A k \in 1..Len(graphs) :
        is_temporal(graphs[k]) <=>
            \E o \in Occurrences(expr[k], FALSE) : IsTimeLike(o[1]) /\ ~o[2]
    /\ tpc = "sig(1)." =>
        /\ ~is_temporal(graphs[1])
        /\ is_temporal(graphs[2])
        /\ is_temporal(graphs[3])
        /\ ~is_temporal(graphs[4])
        /\ ~is_temporal(graphs[5])

C7_Witness ==
    \/ /\ tpc = "sig(1)."
       /\ expr[2] = Term(add, <<x, s>>)
       /\ expr[4] = Term(evaluate_signal, <<s, c0>>)
    \/ \E k \in 1..Len(graphs) :
        /\ is_temporal(graphs[k])
        /\ \E o \in Occurrences(expr[k], FALSE) : IsTimeLike(o[1]) /\ o[2]

\* The nodes reachable from node n of graph g along edges that do not leave a
\* signal-evaluation node (n itself included).
RECURSIVE OpenReach(_, _)
OpenReach(g, n) ==
    IF n \in DOMAIN g.edges /\ g.nodes[n] # evaluate_signal
    THEN {n} \cup UNION {OpenReach(g, g.edges[n][i]) : i \in 1..Len(g.edges[n])}
    ELSE {n}

RECURSIVE Reach(_, _)
Reach(g, n) ==
    IF n \in DOMAIN g.edges
    THEN {n} \cup UNION {Reach(g, g.edges[n][i]) : i \in 1..Len(g.edges[n])}
    ELSE {n}

VarPlusSigT == Term(add, <<x, Term(evaluate_signal, <<s, get_time_variable>>)>>)

\* C8 as stated: var + sig(t) is temporal, and a node is temporal iff some
\* leaf of its subtree is the time variable or a SignalReference.
C8_Original ==
    \A k \in 1..Len(graphs) :
        /\ expr[k] = VarPlusSigT => is_temporal(graphs[k])
        /\ \A n \in 1..Len(graphs[k].nodes) :
            ~is_subtree_constant(graphs[k], n) <=>
                \E m \in Reach(graphs[k], n) : IsTimeLike(graphs[k].nodes[m])

\* C8 amended: var + sig(t) is not temporal, though var + sig is; a node is
\* temporal iff the time variable or a SignalReference is reachable from it
\* without entering the children of a signal-evaluation node.
C8_Amended ==
    \A k \in 1..Len(graphs) :
        /\ expr[k] = VarPlusSigT => ~is_temporal(graphs[k])
        /\ expr[k] = Term(add, <<x, s>>) => is_temporal(graphs[k])
        /\ \A n \in 1..Len(graphs[k].nodes) :
            ~is_subtree_constant(graphs[k], n) <=>
                \E m \in OpenReach(graphs[k], n) : IsTimeLike(graphs[k].nodes[m])

C8_Witness ==
    \E k \in 1..Len(graphs) : expr[k] = VarPlusSigT /\ ~is_temporal(graphs[k])
\* C3: requests naming the same block and the same index, by index or by a
\* name resolving to it, return the identical object, and requests for
\* different (block, index) pairs of blocks that existed at the same time
\* return different objects.
C3_Memoized ==
    /\ \A key \in DOMAIN phist : Cardinality(phist[key]) = 1
    /\ \A k1, k2 \in DOMAIN phist :
        ( /\ k1 # k2
          /\ \/ k1[1] = k2[1]
             \/ {k1[1][2], k2[1][2]} \in coexisted )
        => phist[k1] \cap phist[k2] = {}

\* A request by name answered from the table, after requests for another
\* index of the block, for a block alive at the same time and for an earlier
\* block at the same address.
C3_Witness ==
    /\ preq.outcome = "returned" /\ IsName(preq.parameter) /\ preq.cached
    /\ \E k \in DOMAIN phist : k[1] = preq.block /\ k[2] # preq.index
    /\ \E k \in DOMAIN phist : k[1][1] # preq.block[1]
    /\ \E k \in DOMAIN phist : k[1][1] = preq.block[1] /\ k[1][2] # preq.block[2]

\* C4 as stated: the object returned by Parameter(block, i) gives, while the
\* block exists, (block, slice(i, i + 1, None)) with the requested block as
\* source.
C4_SourceIsRequestedBlock ==
    (preq.outcome = "returned" /\ Deref(preq.block) = preq.block) =>
        get_source_and_slice(preq.obj) =
            [source |-> preq.block, start |-> preq.index, stop |-> preq.index + 1]
LiveSignals == {o \in 1..Len(sigs) : sigs[o].live}

C5_OnePerPort ==
    /\ \A o1, o2 \in LiveSignals :
            sigs[o1].port[1] = sigs[o2].port[1] => o1 = o2
    /\ \A o \in LiveSignals :
            /\ ports[sigs[o].port[1]].alive
            /\ ports[sigs[o].port[1]].serial = sigs[o].port[2]

C5_RequestReturns ==
    sreq' # sreq =>
        LET r == sreq'.result
            prior == {o \in LiveSignals : sigs[o].port[1] = sreq'.port[1]}
        IN /\ sigs'[r].live
           /\ sigs'[r].port = sreq'.port
           /\ prior # {} => r \in prior
           /\ prior = {} => r = Len(sigs) + 1

\* C5: at most one live SignalReference per port identity, its port the port
\* it was requested for; a request returns the live instance when there is
\* one, and otherwise a new instance, never a collected one.
C5_SignalMemoized == [](C5_OnePerPort) /\ [][C5_RequestReturns]_vars

\* A port whose first SignalReference was collected got a second, distinct
\* one, which a later request returned again.
C5_Witness ==
    /\ sreq.result # 0
    /\ sigs[sreq.result].live
    /\ \E o \in 1..Len(sigs) :
        ~sigs[o].live /\ sigs[o].port = sreq.port /\ o # sreq.result
    /\ \E o \in LiveSignals : sigs[o].port # sreq.port
\* The chain rule stated directly: the product of (n1,m1),...,(nk,mk) has
\* shape (n1,mk) when every m_i equals n_(i+1), and is a shape error otherwise.
ChainRule(shapes) ==
    IF \A i \in 1..(Len(shapes) - 1) : shapes[i][2] = shapes[i + 1][1]
    THEN Ok(<<shapes[1][1], shapes[Len(shapes)][2]>>)
    ELSE Raise("AttributeError")

\* C9: matmul_shape of a chain of two-dimensional shapes follows the chain
\* rule, (3,4)@(4,2) is (3,2) and (3,4)@(5,2) raises, and the shape of a graph
\* of matrix products, nested on either side or in one node, is the chain
\* rule of its factors, the error reaching the caller.
C9_MatmulShape ==
    /\ chain # <<>> => fres = ChainRule(chain)
    /\ Len(chain) >= 2 => mres = ChainRule(chain)
    /\ matmul_shape(<< <<3, 4>>, <<4, 2>> >>) = Ok(<<3, 2>>)
    /\ matmul_shape(<< <<3, 4>>, <<5, 2>> >>) = Raise("AttributeError")

\* (3,4) @ (4,2) @ (2,5), built as a graph with two product nodes: (3,5).
C9_Witness ==
    /\ chain = << <<3, 4>>, <<4, 2>>, <<2, 5>> >>
    /\ Cardinality(DOMAIN mgraph.edges) = 2
    /\ mres = Ok(<<3, 5>>)

\* A product node whose child is a product that raised.
C9_WitnessError ==
    /\ Len(chain) = 3
    /\ Cardinality(DOMAIN mgraph.edges) = 2
    /\ chain[1][2] # chain[2][1]
    /\ chain[2][2] = chain[3][1]
    /\ ~mres.ok

\* The ordered pairs that have a converter.
Registered(reg) ==
    {pr \in FromTypes \X ToTypes : pr[1] \in DOMAIN reg /\ pr[2] \in DOMAIN reg[pr[1]]}

C10_NonEmpty == \A f \in DOMAIN registry : DOMAIN registry[f] # {}

C10_Register ==
    creq' # creq \/ registry' # registry =>
        LET pr == <<creq'.from_type, creq'.to_type>>
        IN IF pr \in Registered(registry)
           THEN creq'.outcome = "AssertionError" /\ registry' = registry
           ELSE /\ creq'.outcome = "registered"
                /\ Registered(registry') = Registered(registry) \cup {pr}
                /\ registry'[pr[1]][pr[2]] = creq'.caster
                /\ \A q \in Registered(registry) :
                        registry'[q[1]][q[2]] = registry[q[1]][q[2]]

\* C10: a registration for a pair that has a converter fails and changes
\* nothing; any other registration succeeds, adds its converter and changes
\* no other pair, so each pair keeps the first converter registered for it
\* and no from_type of the registry is without a converter.
C10_DuplicateRegistration == [](C10_NonEmpty) /\ [][C10_Register]_vars

\* A second registration for (int, Variable) failed with another converter,
\* after a second to_type was registered for int.
C10_Witness ==
    /\ creq.outcome = "AssertionError"
    /\ "int" \in DOMAIN registry
    /\ Cardinality(DOMAIN registry["int"]) >= 2
    /\ registry[creq.from_type][creq.to_type] # creq.caster
\* The converters registered for a type.
ConvertersOf(from_type) ==
    IF from_type \in DOMAIN registry THEN DOMAIN registry[from_type] ELSE {}

C11_Resolves ==
    cres' # cres =>
        LET f == cres'.from_type
            k == cres'.to_type
            r == cres'.result
            n == Cardinality(ConvertersOf(f))
        IN /\ registry' = registry
           /\ k = NoType =>
                /\ r.ok <=> n = 1
                /\ r = Raise("TypeError") <=> n > 1
                /\ r = Raise("NotImplementedError") <=> n = 0
                /\ n = 1 => \E c \in ConvertersOf(f) : r = Applied(registry[f][c], f)
           /\ k # NoType =>
                IF k \in ConvertersOf(f)
                THEN r = Applied(registry[f][k], f)
                ELSE r = Raise("NotImplementedError")
           /\ cres'.call = "cast_like" => r = cast_type(registry, f, k)

\* C11: a cast without a target applies the converter iff the value's exact
\* type has exactly one, raises the ambiguity error iff it has several and the
\* unknown-cast error iff it has none; a cast with a target applies the
\* converter of exactly that pair or raises the unknown-cast error; cast_like
\* is the cast to the exemplar's type.
C11_CastResolution == [][C11_Resolves]_vars

\* An untargeted cast of an int was ambiguous with two converters registered,
\* while a float has exactly one.
C11_Witness ==
    /\ cres.call = "cast_type"
    /\ cres.to_type = NoType
    /\ cres.from_type = "int"
    /\ cres.result = Raise("TypeError")
    /\ Cardinality(ConvertersOf("int")) = 2
    /\ Cardinality(ConvertersOf("float")) = 1
\* The functions of the operator table.
RegisteredOps(table) == UNION {{table[n][i] : i \in 1..Len(table[n])} : n \in DOMAIN table}

\* C12: a registration of a function that is in the operator table already
\* ends in an error and leaves both tables as they were.
C12_DuplicateIsError ==
    [][oreq' # oreq /\ oreq'.func \in RegisteredOps(ops) =>
            /\ oreq'.outcome = "error"
            /\ ops' = ops
            /\ shape_ops' = shape_ops]_vars
\* C13: hashing succeeds for every graph built.
C13_HashSucceeds ==
    \A k \in 1..Len(graphs) : ExpressionGraph_hash(graphs[k]).ok
\* Argument specifications over distinct scalar leaves: single leaves, a list,
\* and a list beside a leaf.
ArgumentSpecs ==
    {<<x>>, <<x, p>>, <<PyList(<<x, p>>)>>, <<PyList(<<x>>), p>>, <<p, PyList(<<x>>)>>}

\* The length of the vector symbol an entry contributes.
EntryLength(arg) == IF arg.kind = "list" THEN Len(arg.items) ELSE shape_of_leaf(arg)[1]

\* C14: the backend compiler is handed one fresh vector symbol per entry of
\* the argument specification, in argument order, sized to the entry.
C14_OneSymbolPerEntry ==
    \A k \in 1..Len(graphs) : \A arguments \in ArgumentSpecs :
        LET r == lambdify(graphs[k], arguments)
        IN /\ r.ok
           /\ r.symbols = [i \in 1..Len(arguments) |->
                                SymbolicVector(i - 1, EntryLength(arguments[i]))]
\* The receiving graphs a merge meets: a graph under construction holds its
\* operator only; a graph in a push holds its new operator, without edge yet.
MergeReceivers(k) ==
    {add_or_get_value(EmptyGraph, add).g, add_or_get_value(graphs[k], add).g}

\* A construction or push changes the receiving graph only: the graphs
\* passed as arguments stay as they were.
C15_ArgumentsKept ==
    \A k \in 1..Len(graphs) :
        graphs'[k] # graphs[k] =>
            \A j \in 1..Len(graphs) : j # k => graphs'[j] = graphs[j]

C15_MergeMaps ==
    \A k, j \in 1..Len(graphs) : k # j =>
        \A A \in MergeReceivers(k) :
            LET B == graphs[j]
                map == MergeNodes(A, B.nodes, <<>>).map
                r == merge_and_return_subgraph_head(A, B)
            IN /\ \A i \in 1..Len(B.nodes) : r.g.nodes[map[i]] = B.nodes[i]
               /\ \A q \in DOMAIN B.edges :
                    /\ map[q] \in DOMAIN r.g.edges
                    /\ r.g.edges[map[q]] = [c \in 1..Len(B.edges[q]) |-> map[B.edges[q][c]]]
               /\ r.idx = map[B.head]
               /\ r.g.head = A.head
               /\ SubSeq(r.g.nodes, 1, Len(A.nodes)) = A.nodes
               /\ \A q \in DOMAIN A.edges :
                    q \in DOMAIN r.g.edges /\ r.g.edges[q] = A.edges[q]
               /\ DOMAIN r.g.edges = DOMAIN A.edges \cup {map[q] : q \in DOMAIN B.edges}

\* C15: merging B into A maps every index of B to an index of A holding the
\* same value, adds every edge of B remapped with its children in order,
\* returns the image of B's head, and leaves A's head, nodes and edges as
\* they were, and B whole.
C15_MergeFrame == [](C15_MergeMaps) /\ [][C15_ArgumentsKept]_vars

\* Two graphs, one built by merging a graph argument: B has two operator
\* nodes and shares a leaf with A, so the merge moves B's indices and reuses
\* A's node for the shared leaf.
C15_Witness ==
    \E k, j \in 1..Len(graphs) :
        /\ k # j
        /\ \E i \in 1..Len(expr[k].args) : expr[k].args[i].kind = "term"
        /\ Cardinality(DOMAIN graphs[j].edges) >= 2
        /\ LET A == add_or_get_value(graphs[k], add).g
               map == MergeNodes(A, graphs[j].nodes, <<>>).map
           IN /\ \E i \in 1..Len(map) : map[i] <= Len(graphs[k].nodes)
              /\ \E i \in 1..Len(map) : map[i] # i
RECURSIVE TermAt(_, _)
\* The expression a node of a graph stands for.
TermAt(g, node) ==
    IF node \in DOMAIN g.edges
    THEN Term(g.nodes[node], [i \in 1..Len(g.edges[node]) |-> TermAt(g, g.edges[node][i])])
    ELSE g.nodes[node]

\* The pushes checked on every graph built: the registered operators of the
\* driver over its operands, a number and a Parameter, the graph itself and
\* the other graphs included.
PushArgLists(op) ==
    LET operands == Operands \cup {c1, p}
    IN IF op \in UnaryOps THEN {<<a>> : a \in operands}
       ELSE {<<a, b>> : a \in operands, b \in operands}

C16_PushGrows ==
    \A k \in 1..Len(graphs) : \A op \in BinaryOps \cup UnaryOps :
        \A args \in PushArgLists(op) :
            LET g == graphs[k]
                n == Len(g.nodes)
                h == push_op(g, k, graphs, op, args)
            IN /\ h.head = n + 1
               /\ h.nodes[h.head] = op
               /\ SubSeq(h.nodes, 1, n) = g.nodes
               /\ \A q \in DOMAIN g.edges :
                    q \in DOMAIN h.edges /\ h.edges[q] = g.edges[q]
               /\ h.head \in DOMAIN h.edges
               /\ Len(h.edges[h.head]) = Len(args)
               /\ \A q \in DOMAIN h.edges : \A c \in 1..Len(h.edges[q]) :
                    h.edges[q][c] # h.head
               /\ \A i \in 1..Len(args) :
                    /\ args[i] = GRef(k) => h.edges[h.head][i] = g.head
                    /\ TermAt(h, h.edges[h.head][i]) = ArgExpr(args[i], k, expr[k], expr)

\* A step that changes a graph object is a push on it: the object stays the
\* same graph of the pool, with a fresh head over what it held.
C16_InPlace ==
    \A k \in 1..Len(graphs) :
        graphs'[k] # graphs[k] =>
            /\ Len(graphs') = Len(graphs)
            /\ graphs'[k].head = Len(graphs[k].nodes) + 1
            /\ TermAt(graphs'[k], graphs'[k].head) = expr'[k]
            /\ \A q \in DOMAIN graphs[k].edges : graphs'[k].edges[q] = graphs[k].edges[q]

\* C16: a push on g, and an infix operation received by g, leaves g the same
\* object with a freshly appended head holding the operator over the indices
\* of the arguments in order, g itself as argument being its head from before;
\* the nodes and edges from before are unchanged and no edge points to the
\* new head.
C16_PushOp == [](C16_PushGrows) /\ [][C16_InPlace]_vars

\* A graph pushed with itself as both arguments of the operator: the new head
\* points twice to the head from before.
C16_Witness ==
    \E k \in 1..Len(graphs) :
        LET g == graphs[k]
        IN /\ g.head > 1
           /\ Len(g.edges[g.head]) = 2
           /\ g.edges[g.head][1] = g.edges[g.head][2]
           /\ g.edges[g.head][1] \in DOMAIN g.edges
           /\ g.edges[g.head][1] < g.head
\* The threads that have received their instance of a cache.
Received(c) == {i \in Threads : thr[i].ret[c] # 0}

\* C17: with every request under one lock the threads receive the same
\* instance in every interleaving, and one instance is constructed; without
\* the lock some interleaving gives them distinct instances (the witness).
C17_LockedUnique ==
    tmode = "locked" =>
        \A n \in 1..Len(Caches) :
            /\ tobjs[Caches[n]] <= 1
            /\ \A i, j \in Received(Caches[n]) :
                    thr[i].ret[Caches[n]] = thr[j].ret[Caches[n]]

\* Without the lock, both threads looked up before either inserted, for the
\* Parameter and for the SignalReference: each thread holds its own instance.
C17_Witness ==
    /\ tmode = "bare"
    /\ \A n \in 1..Len(Caches) :
        /\ Received(Caches[n]) = Threads
        /\ thr[1].ret[Caches[n]] # thr[2].ret[Caches[n]]
\* C18: a graph is temporal exactly when the time variable is one of its
\* symbols.
C18_TemporalIffTimeSymbol ==
    \A k \in 1..Len(graphs) :
        is_temporal(graphs[k]) <=> get_time_variable \in symbols(graphs[k])

\* A signal evaluated at the value of a signal evaluation at the time
\* variable, neither temporal nor with the time variable among its symbols,
\* beside a graph that holds a signal evaluation and a bare SignalReference
\* and is temporal.
C18_Witness ==
    \E k, j \in 1..Len(graphs) :
        /\ expr[k] = Term(evaluate_signal,
                          <<s, Term(evaluate_signal, <<s, get_time_variable>>)>>)
        /\ ~is_temporal(graphs[k])
        /\ get_time_variable \notin symbols(graphs[k])
        /\ expr[j] = Term(add, <<Term(evaluate_signal, <<s, get_time_variable>>), s>>)
        /\ is_temporal(graphs[j])
        /\ get_time_variable \in symbols(graphs[j])
\* The children of a node, and the nodes below a set of nodes (computed to a
\* fixed point, so also on a graph with a cycle).
Children(g, n) ==
    IF n \in DOMAIN g.edges THEN {g.edges[n][i] : i \in 1..Len(g.edges[n])} ELSE {}

RECURSIVE Descendants(_, _)
Descendants(g, set) ==
    LET next == set \cup UNION {Children(g, n) : n \in set}
    IN IF next = set THEN set ELSE Descendants(g, next)

WellFormed(g) ==
    /\ DOMAIN g.edges \subseteq 1..Len(g.nodes)
    /\ \A q \in DOMAIN g.edges : is_op(g.nodes[q])
    /\ \A q \in DOMAIN g.edges : Children(g, q) \subseteq 1..Len(g.nodes)
    /\ g.head \in DOMAIN g.edges
    /\ \A n \in 1..Len(g.nodes) : n \notin Descendants(g, Children(g, n))

\* C19: every graph built by construction, push (the graph itself among the
\* arguments included) and merge is well formed and acyclic: the keys of the
\* edge map are operator nodes, every child is a node index, the head is an
\* operator node with an edge, and no node is below itself.
C19_WellFormedAcyclic == \A k \in 1..Len(graphs) : WellFormed(graphs[k])

\* Three operator nodes, the graph pushed with itself as both arguments, and
\* a leaf with two parents: a graph that is not a tree, and has no cycle.
C19_Witness ==
    \E k \in 1..Len(graphs) :
        LET g == graphs[k]
        IN /\ Cardinality(DOMAIN g.edges) >= 3
           /\ \E q \in DOMAIN g.edges :
                /\ Len(g.edges[q]) = 2
                /\ g.edges[q][1] = g.edges[q][2]
                /\ g.edges[q][1] \in DOMAIN g.edges
           /\ \E q, r \in DOMAIN g.edges :
                /\ q # r
                /\ \E n \in Children(g, q) \cap Children(g, r) : ~is_op(g.nodes[n])
           /\ WellFormed(g)
\* C20: is_symbolic of a graph is true exactly when its symbols() is not
\* empty, so a graph over numbers only is not symbolic.
C20_SymbolicIffSymbols ==
    \A k \in 1..Len(graphs) :
        ExpressionGraph_is_symbolic(graphs[k]) <=> symbols(graphs[k]) # {}
====
